---- MODULE Spec2Model ----
(***************************************************************************)
(* Model of the MCP tool-server client of nanotalon (agent/mcp/mcp.go).    *)
(*                                                                         *)
(* SpecSession: one MCPSession with concurrent callers of sendRequest, the *)
(* background reader (readStdioResponses / readWebSocketResponses), the    *)
(* peer and Close, at the granularity of the session lock ms.mu.           *)
(* SpecManager: the MCPServerManager and its sessions.                     *)
(* SpecConsumer: ConnectMCPServers (package tools) driving a new manager.  *)
(* SpecShutdown: CloseAll against calls routed through the manager.        *)
(* SpecCron: the CronService (cron/service.go), its callers and the        *)
(* scheduler tasks it starts.                                              *)
(* SpecHeartbeat: the heartbeat Service (package heartbeat).                *)
(* SpecSubagent: the SubagentManager (package subagent).                    *)
(* SpecAgent: AgentLoop.ProcessDirect and the SessionManager.               *)
(***************************************************************************)
EXTENDS Integers, Sequences, FiniteSets, TLC

\* ---------------------------------------------------------------- bounds
NumCallers == 2
MaxReqID == 2
PipeCap == 1

Callers == 1..NumCallers
Ids == 1..MaxReqID

\* ------------------------------------------------------------- constants
\* ConnectMCPServers: the default toolTimeout, in seconds.
DefaultTimeout == 30

\* The nil map of a session that has not connected (no id is negative).
Nil == {-1}

VARIABLES
    server,          \* MCPSession.Server: the descriptor
    transport,       \* MCPSession.transport
    activeRequests,  \* MCPSession.activeRequests: Nil, or the set of pending ids
    reqID,           \* MCPSession.reqID
    muHeld,          \* ms.mu is held and will never be released
    crashed,         \* a goroutine panicked: the Go process is gone
    peerUp,          \* the child process is alive / the socket is open
    readerAlive,     \* number of reader goroutines running for the session
    stdinPipe,       \* request frames written to the child's stdin and not read yet
    pc,              \* per caller: position in sendRequest and its typed wrapper
    curId,           \* per caller: the id sendRequest allocated (0: none)
    slot,            \* per caller: content of responseChan (capacity 1)
    resp,            \* per caller: the bytes received from responseChan
    outcome,         \* per caller: how the call returned
    afterExit        \* per caller: the call was issued after the child had exited

svars == <<server, transport, activeRequests, reqID, muHeld, crashed, peerUp,
           readerAlive, stdinPipe, pc, curId, slot, resp, outcome, afterExit>>

VARIABLES
    servers,         \* MCPServerManager.servers: per name, the session stored under it
    caTodo,          \* ConnectAll: the names the range loop has not visited yet
    caCur,           \* ConnectAll: the name being connected / initialized (<<>>: none)
    caRunning,       \* ConnectAll is executing (it holds mm.mu.RLock)
    caErr,           \* ConnectAll: lastErr is not nil
    mcrashed,        \* a goroutine panicked: the Go process is gone
    last             \* the last manager operation that returned, and its result

mvars == <<servers, caTodo, caCur, caRunning, caErr, mcrashed, last>>

VARIABLES
    cms,             \* ConnectMCPServers: its position ("off": not running)
    registry,        \* ToolRegistry: the wrappers ConnectMCPServers registered
    closing          \* CloseAll: "no", "waiting" for mm.mu.Lock, or "done"

cvars == <<cms, registry, closing>>

\* CronService (cron/service.go)
VARIABLES
    clock,           \* time.Now().Unix(), the source of job ids
    jobObj,          \* the CronJob objects ever allocated by AddJob
    jobs,            \* cs.jobs: id -> object (0: no entry)
    sched,           \* live schedules of an object: ticker goroutines,
                     \* entries of the current cs.cron, "at" goroutines
    cronRunning,     \* the current cs.cron has been started
    mutexStuck,      \* cs.mutex is write-held by a task that waits for it
    removing,        \* scheduler tasks that ran the job and call RemoveJob
    runs,            \* times the scheduler invoked onJob for an object
    clast            \* the last CronService call and what it returned

kvars == <<clock, jobObj, jobs, sched, cronRunning, mutexStuck, removing, runs, clast>>

\* The ids sendRequest has allocated on the session, in allocation order.
VARIABLE issued

\* MCPSession.Close has killed the child process / closed the socket.
VARIABLE sessClosed

\* heartbeat.Service
VARIABLES
    hbEnabled,       \* Service.enabled
    hbRunning,       \* Service.running
    hbCancelled,     \* Service.ctx is done (cancel was called)
    hbMu,            \* Service.mu is held by Stop, which waits for the loop
    hbLoops,         \* heartbeat loops alive
    hbPc,            \* the youngest loop: "none", "first" (before the immediate
                     \* heartbeat), "select", or "exec" (inside onExecute)
    hbBeats,         \* heartbeats executed since the last Start
    hbNotified,      \* onNotify calls since the last Start
    hbLast           \* what the last Start returned

hvars == <<hbEnabled, hbRunning, hbCancelled, hbMu, hbLoops, hbPc, hbBeats, hbNotified, hbLast>>

\* subagent.SubagentManager
VARIABLES
    saClock,         \* time.Now().Unix(), the source of task ids
    saTasks,         \* the SubagentTask objects and the task each one runs
    runningTasks,    \* SubagentManager.runningTasks: id -> task object, 0 if absent
    saLast           \* what the last Spawn or CancelTask returned

avars == <<saClock, saTasks, runningTasks, saLast>>

\* AgentLoop and its session.SessionManager
VARIABLES
    smSessions,      \* SessionManager.sessions: key -> is it a key, its Messages
    memoryWindow,    \* AgentLoop.memoryWindow
    pdReq,           \* ChatRequest.Messages of the last ProcessDirect
    pdBefore,        \* the Messages the session had when that call began
    pdLast           \* the last ProcessDirect: its arguments and its result

pvars == <<smSessions, memoryWindow, pdReq, pdBefore, pdLast>>

mcpvars == <<svars, mvars, cvars>>
\* What the MCP operations other than the id allocation leave alone, and what
\* the cron service leaves alone.
\* the services outside the MCP client and the cron service
extvars == <<hvars, avars, pvars>>

nonMcp == <<kvars, issued, sessClosed, extvars>>
nonCron == <<mcpvars, issued, sessClosed, extvars>>
nonHeartbeat == <<mcpvars, issued, sessClosed, kvars, avars, pvars>>
nonSubagent == <<mcpvars, issued, sessClosed, kvars, hvars, pvars>>
nonAgent == <<mcpvars, issued, sessClosed, kvars, hvars, avars>>

vars == <<svars, mvars, cvars, kvars, issued, sessClosed, extvars>>

\* ---------------------------------------------------------------- heartbeat
\* heartbeat.Service: Start, Stop and the loop Start spawns.
MaxBeats == 4

\* NewService: the context is made here, once; the service is not running.
InitHeartbeat ==
    /\ hbEnabled \in BOOLEAN
    /\ hbRunning = FALSE
    /\ hbCancelled = FALSE
    /\ hbMu = FALSE
    /\ hbLoops = 0
    /\ hbPc = "none"
    /\ hbBeats = 0
    /\ hbNotified = 0
    /\ hbLast = "none"

\* Start: an error when running or disabled; else running is set and a loop
\* is spawned.
HbStart ==
    /\ ~hbMu
    /\ IF hbRunning
       THEN /\ hbLast' = "already running"
            /\ UNCHANGED <<hbRunning, hbLoops, hbPc, hbBeats, hbNotified>>
       ELSE IF ~hbEnabled
       THEN /\ hbLast' = "disabled"
            /\ UNCHANGED <<hbRunning, hbLoops, hbPc, hbBeats, hbNotified>>
       ELSE /\ hbLast' = "nil"
            /\ hbRunning' = TRUE
            /\ hbLoops' = hbLoops + 1
            /\ hbPc' = "first"
            /\ hbBeats' = 0
            /\ hbNotified' = 0
    /\ UNCHANGED <<hbEnabled, hbCancelled, hbMu>>
    /\ UNCHANGED nonHeartbeat

\* executeHeartbeat up to the onExecute call: with no tasks it returns at
\* once, with tasks it enters onExecute.
executeHeartbeat(tasks) ==
    /\ hbBeats' = hbBeats + 1
    /\ hbPc' = IF hbEnabled /\ tasks THEN "exec" ELSE "select"
    /\ UNCHANGED <<hbEnabled, hbRunning, hbCancelled, hbMu, hbLoops, hbNotified, hbLast>>
    /\ UNCHANGED nonHeartbeat

\* The loop, lines 78-79: the heartbeat executed immediately on startup.
HbFirstBeat ==
    /\ hbPc = "first"
    /\ \E tasks \in BOOLEAN : executeHeartbeat(tasks)

\* The loop, lines 83-84: the select takes a tick.
HbTick ==
    /\ hbPc = "select"
    /\ hbBeats < MaxBeats
    /\ \E tasks \in BOOLEAN : executeHeartbeat(tasks)

\* executeHeartbeat, lines 126-136: onExecute returns; a non-empty response
\* is handed to onNotify.
HbExecuted ==
    /\ hbPc = "exec"
    /\ \E response \in BOOLEAN :
           hbNotified' = IF response THEN hbNotified + 1 ELSE hbNotified
    /\ hbPc' = "select"
    /\ UNCHANGED <<hbEnabled, hbRunning, hbCancelled, hbMu, hbLoops, hbBeats, hbLast>>
    /\ UNCHANGED nonHeartbeat

\* The loop, lines 85-86: the select takes ctx.Done() and the loop returns.
HbLoopExit ==
    /\ hbPc = "select"
    /\ hbCancelled
    /\ hbLoops' = hbLoops - 1
    /\ hbPc' = "none"
    /\ UNCHANGED <<hbEnabled, hbRunning, hbCancelled, hbMu, hbBeats, hbNotified, hbLast>>
    /\ UNCHANGED nonHeartbeat

\* Stop, lines 96-104: nothing when not running; else cancel, then wait for
\* the loop with s.mu held.
HbStopBegin ==
    /\ ~hbMu
    /\ IF hbRunning
       THEN hbCancelled' = TRUE /\ hbMu' = TRUE
       ELSE UNCHANGED <<hbCancelled, hbMu>>
    /\ hbLast' = "none"
    /\ UNCHANGED <<hbEnabled, hbRunning, hbLoops, hbPc, hbBeats, hbNotified>>
    /\ UNCHANGED nonHeartbeat

\* Stop, lines 104-105: wg.Wait returns, running is cleared, Stop returns.
HbStopEnd ==
    /\ hbMu
    /\ hbLoops = 0
    /\ hbRunning' = FALSE
    /\ hbMu' = FALSE
    /\ UNCHANGED <<hbEnabled, hbCancelled, hbLoops, hbPc, hbBeats, hbNotified, hbLast>>
    /\ UNCHANGED nonHeartbeat

NextHeartbeat ==
    \/ HbStart
    \/ HbFirstBeat
    \/ HbTick
    \/ HbExecuted
    \/ HbLoopExit
    \/ HbStopBegin
    \/ HbStopEnd

\* ---------------------------------------------------------------- subagents
\* subagent.SubagentManager: Spawn, the task goroutines, waitForDependencies.
MaxSaClock == 2
MaxTasks == 3

TaskObjs == 1..MaxTasks
TaskIds == 1..MaxSaClock

\* A task object not yet made by Spawn.
NoTask == [id |-> 0, status |-> "none", deps |-> {}, pc |-> "unused",
           waited |-> FALSE]

\* NewSubagentManager: an empty runningTasks map.
InitSubagent ==
    /\ saClock = 1
    /\ saTasks = [o \in TaskObjs |-> NoTask]
    /\ runningTasks = [i \in TaskIds |-> 0]
    /\ saLast = "none"

\* generateTaskID: the Unix second.
generateTaskID == saClock

\* taskExists: the id is a key of runningTasks.
taskExists(taskID) == runningTasks[taskID] # 0

\* areDependenciesMet: every dependency is in runningTasks with Status
\* completed.
areDependenciesMet(dependencies) ==
    \A depID \in dependencies :
        /\ runningTasks[depID] # 0
        /\ saTasks[runningTasks[depID]].status = "completed"

\* Spawn: error for an unknown dependency; a task whose dependencies are not
\* met is handed to waitForDependencies and is not stored; otherwise the
\* task is stored in runningTasks under its id and its goroutine runs it.
Spawn(dependencies) ==
    /\ \E o \in TaskObjs :
        /\ saTasks[o].pc = "unused"
        /\ \A q \in TaskObjs : q < o => saTasks[q].pc # "unused"
        /\ IF \E depID \in dependencies : ~taskExists(depID)
           THEN /\ saLast' = "error"
                /\ UNCHANGED <<saTasks, runningTasks>>
           ELSE IF dependencies # {} /\ ~areDependenciesMet(dependencies)
           THEN /\ saTasks' = [saTasks EXCEPT ![o] =
                       [id |-> generateTaskID, status |-> "pending",
                        deps |-> dependencies, pc |-> "waiting",
                        waited |-> TRUE]]
                /\ saLast' = "scheduled"
                /\ UNCHANGED runningTasks
           ELSE /\ saTasks' = [saTasks EXCEPT ![o] =
                       [id |-> generateTaskID, status |-> "running",
                        deps |-> dependencies, pc |-> "run",
                        waited |-> FALSE]]
                /\ runningTasks' = [runningTasks EXCEPT ![generateTaskID] = o]
                /\ saLast' = "started"
    /\ UNCHANGED saClock
    /\ UNCHANGED nonSubagent

\* waitForDependencies, one round of the loop: the task starts when
\* areDependenciesMet, else it sleeps a second and looks again.
waitForDependencies(o) ==
    /\ saTasks[o].pc = "waiting"
    /\ IF areDependenciesMet(saTasks[o].deps)
       THEN saTasks' = [saTasks EXCEPT ![o].status = "running", ![o].pc = "run"]
       ELSE UNCHANGED saTasks
    /\ UNCHANGED <<saClock, runningTasks, saLast>>
    /\ UNCHANGED nonSubagent

\* The task goroutine: runSubagent returns and Status is set from its error.
SubagentDone(o, ok) ==
    /\ saTasks[o].pc = "run"
    /\ saTasks' = [saTasks EXCEPT
           ![o].status = IF ok THEN "completed" ELSE "failed",
           ![o].pc = "announce"]
    /\ UNCHANGED <<saClock, runningTasks, saLast>>
    /\ UNCHANGED nonSubagent

\* The task goroutine after announceResult: the goroutine of Spawn deletes
\* the key taskID from runningTasks (the deferred function); the goroutine of
\* waitForDependencies has no deferred function.
SubagentExit(o) ==
    /\ saTasks[o].pc = "announce"
    /\ saTasks' = [saTasks EXCEPT ![o].pc = "done"]
    /\ runningTasks' = IF saTasks[o].waited
                        THEN runningTasks
                        ELSE [runningTasks EXCEPT ![saTasks[o].id] = 0]
    /\ UNCHANGED <<saClock, saLast>>
    /\ UNCHANGED nonSubagent

\* CancelTask: error for an id not in runningTasks, else Status failed.
CancelTask(taskID) ==
    /\ IF ~taskExists(taskID)
       THEN /\ saLast' = "not found"
            /\ UNCHANGED saTasks
       ELSE /\ saTasks' = [saTasks EXCEPT ![runningTasks[taskID]].status = "failed"]
            /\ saLast' = "nil"
    /\ UNCHANGED <<saClock, runningTasks>>
    /\ UNCHANGED nonSubagent

\* A second passes.
SaTick ==
    /\ saClock < MaxSaClock
    /\ saClock' = saClock + 1
    /\ UNCHANGED <<saTasks, runningTasks, saLast>>
    /\ UNCHANGED nonSubagent

NextSubagent ==
    \/ \E dependencies \in SUBSET TaskIds : Spawn(dependencies)
    \/ \E o \in TaskObjs : waitForDependencies(o)
    \/ \E o \in TaskObjs, ok \in BOOLEAN : SubagentDone(o, ok)
    \/ \E o \in TaskObjs : SubagentExit(o)
    \/ \E taskID \in TaskIds : CancelTask(taskID)
    \/ SaTick

\* ---------------------------------------------------------------- agent loop
\* AgentLoop.ProcessDirect over session.SessionManager.
MaxHistory == 4

SessionKeys == {"cli", "cron"}
Contents == {"m1", "m2"}
Replies == {"r1"}

NoDirect == [op |-> "none", sessionID |-> "none", message |-> "none",
             reply |-> "none", ok |-> FALSE]

\* NewSessionManager: an empty sessions map; memoryWindow from the
\* configuration.
InitAgent ==
    /\ smSessions = [k \in SessionKeys |-> [exists |-> FALSE, Messages |-> <<>>]]
    /\ memoryWindow \in {2, MaxHistory}
    /\ pdReq = <<>>
    /\ pdBefore = <<>>
    /\ pdLast = NoDirect

\* SaveMessage: error for an unknown key, else the message is appended.
\* The value is the sessions map afterwards.
SaveMessage(ss, sessionKey, role, content) ==
    IF ~ss[sessionKey].exists
    THEN ss
    ELSE [ss EXCEPT ![sessionKey].Messages =
              Append(@, [role |-> role, content |-> content])]

\* GetMessageHistory: error (nil) for an unknown key, else the last limit
\* messages.
GetMessageHistory(ss, sessionKey, limit) ==
    IF ~ss[sessionKey].exists
    THEN <<>>
    ELSE LET msgs == ss[sessionKey].Messages
             startIdx == IF Len(msgs) > limit THEN Len(msgs) - limit ELSE 0
         IN  SubSeq(msgs, startIdx + 1, Len(msgs))

\* ProcessDirect: save the user message, read the history, build the
\* request from the history and the message, call the LLM, save the reply.
ProcessDirect(message, sessionID, chatOk, reply) ==
    LET saved == SaveMessage(smSessions, sessionID, "user", message)
        history == GetMessageHistory(saved, sessionID, memoryWindow)
        messages == Append(history, [role |-> "user", content |-> message])
    IN  /\ Len(smSessions[sessionID].Messages) + 2 <= MaxHistory
        /\ pdBefore' = smSessions[sessionID].Messages
        /\ pdReq' = messages
        /\ IF chatOk
           THEN /\ smSessions' = SaveMessage(saved, sessionID, "assistant", reply)
                /\ pdLast' = [op |-> "ProcessDirect", sessionID |-> sessionID,
                              message |-> message, reply |-> reply, ok |-> TRUE]
           ELSE /\ smSessions' = saved
                /\ pdLast' = [op |-> "ProcessDirect", sessionID |-> sessionID,
                              message |-> message, reply |-> "none", ok |-> FALSE]
        /\ UNCHANGED memoryWindow
        /\ UNCHANGED nonAgent

\* GetOrCreateSession: a new key gets an empty session.
GetOrCreateSession(sessionKey) ==
    /\ smSessions' = IF smSessions[sessionKey].exists
                      THEN smSessions
                      ELSE [smSessions EXCEPT ![sessionKey] =
                                [exists |-> TRUE, Messages |-> <<>>]]
    /\ pdLast' = [NoDirect EXCEPT !.op = "GetOrCreateSession", !.sessionID = sessionKey]
    /\ UNCHANGED <<memoryWindow, pdReq, pdBefore>>
    /\ UNCHANGED nonAgent

\* ClearSession: error for an unknown key, else its Messages are emptied.
ClearSession(sessionKey) ==
    /\ smSessions' = IF smSessions[sessionKey].exists
                      THEN [smSessions EXCEPT ![sessionKey].Messages = <<>>]
                      ELSE smSessions
    /\ pdLast' = [NoDirect EXCEPT !.op = "ClearSession", !.sessionID = sessionKey]
    /\ UNCHANGED <<memoryWindow, pdReq, pdBefore>>
    /\ UNCHANGED nonAgent

\* DeleteSession: error for an unknown key, else the key is deleted.
DeleteSession(sessionKey) ==
    /\ smSessions' = [smSessions EXCEPT ![sessionKey] =
                          [exists |-> FALSE, Messages |-> <<>>]]
    /\ pdLast' = [NoDirect EXCEPT !.op = "DeleteSession", !.sessionID = sessionKey]
    /\ UNCHANGED <<memoryWindow, pdReq, pdBefore>>
    /\ UNCHANGED nonAgent

NextAgent ==
    \/ \E message \in Contents, sessionID \in SessionKeys, chatOk \in BOOLEAN,
          reply \in Replies : ProcessDirect(message, sessionID, chatOk, reply)
    \/ \E sessionKey \in SessionKeys : GetOrCreateSession(sessionKey)
    \/ \E sessionKey \in SessionKeys : ClearSession(sessionKey)
    \/ \E sessionKey \in SessionKeys : DeleteSession(sessionKey)

\* ---------------------------------------------------------------- cron service
\* CronService (cron/service.go).  cs.mutex is a sync.RWMutex: a task that
\* holds it for writing and asks for it again, for reading, waits for itself
\* for ever.  Every other critical section is one step of the model.
MaxClock == 2
MaxJobs == 2
MaxSched == 2
MaxRuns == 2

JobIds == 1..MaxClock
Objs == 1..MaxJobs
Kinds == {"every", "cron", "at", "other"}

NoJob == [used |-> FALSE, id |-> 0, kind |-> "other", valid |-> FALSE,
          dar |-> FALSE, enabled |-> FALSE]

NoCall == [op |-> "none", id |-> 0, ret |-> "none", obj |-> 0]

\* NewCronService with no store file: no job, the cron not started.
InitCron ==
    /\ clock = 1
    /\ jobObj = [o \in Objs |-> NoJob]
    /\ jobs = [i \in JobIds |-> 0]
    /\ sched = [o \in Objs |-> 0]
    /\ cronRunning = FALSE
    /\ mutexStuck = FALSE
    /\ removing = [o \in Objs |-> 0]
    /\ runs = [o \in Objs |-> 0]
    /\ clast = NoCall

\* scheduleJob: does it start a schedule for job j?  A disabled job, a cron
\* job whose expression is empty or does not parse (the error is only
\* printed) and a job of an unsupported kind get none.
Schedules(j) ==
    /\ j.enabled
    /\ \/ j.kind \in {"every", "at"}
       \/ j.kind = "cron" /\ j.valid

\* ListJobs(includeDisabled): the objects in cs.jobs.
ListJobs(includeDisabled) ==
    {o \in Objs : /\ \E i \in JobIds : jobs[i] = o
                  /\ includeDisabled \/ jobObj[o].enabled}

\* AddJob: the id is the current second, so a second AddJob in the same second
\* replaces the first entry; scheduleJob reports nothing; only saveJobs can
\* make AddJob fail.
AddJob(kind, valid, deleteAfterRun, saveOk) ==
    /\ ~mutexStuck
    /\ kind # "cron" => valid
    /\ \E o \in Objs :
        /\ ~jobObj[o].used
        /\ \A p \in Objs : p < o => jobObj[p].used
        /\ LET job == [used |-> TRUE, id |-> clock, kind |-> kind, valid |-> valid,
                       dar |-> deleteAfterRun, enabled |-> TRUE]
           IN  /\ jobObj' = [jobObj EXCEPT ![o] = job]
               /\ jobs' = [jobs EXCEPT ![clock] = o]
               /\ sched' = [sched EXCEPT ![o] = IF Schedules(job) THEN 1 ELSE 0]
               /\ clast' = [op |-> "AddJob", id |-> clock,
                            ret |-> IF saveOk THEN "job" ELSE "error", obj |-> o]
    /\ UNCHANGED <<clock, cronRunning, mutexStuck, removing, runs>>
    /\ UNCHANGED nonCron

\* RemoveJob lines 160-172 and EnableJob(false) lines 211-220: every other
\* enabled job is scheduled once more, onto the old cs.cron, which is then
\* stopped and replaced by a new, empty cron that is not started.  Ticker and
\* "at" goroutines are not stopped.
Rescheduled(others) ==
    [o \in Objs |->
        IF jobObj[o].kind = "cron" THEN 0
        ELSE IF o \in others /\ Schedules(jobObj[o]) THEN sched[o] + 1
        ELSE sched[o]]

RemoveJobBody(jobID) ==
    LET o == jobs[jobID] IN
    IF o = 0
    THEN UNCHANGED <<jobs, sched, cronRunning, mutexStuck>>
    ELSE /\ jobs' = [jobs EXCEPT ![jobID] = 0]
         /\ IF jobObj[o].enabled
            THEN /\ sched' = Rescheduled(ListJobs(FALSE) \ {o})
                 /\ \A e \in Objs : sched'[e] <= MaxSched
                 /\ cronRunning' = FALSE
            ELSE UNCHANGED <<sched, cronRunning>>
         \* saveJobs (line 174) asks for cs.mutex.RLock under cs.mutex.Lock
         /\ mutexStuck' = TRUE

\* RemoveJob called by a user of the service.  An unknown id: false.  A known
\* id: the call never returns ("blocked").
RemoveJob(jobID) ==
    /\ ~mutexStuck
    /\ RemoveJobBody(jobID)
    /\ clast' = [op |-> "RemoveJob", id |-> jobID,
                 ret |-> IF jobs[jobID] = 0 THEN "false" ELSE "blocked",
                 obj |-> jobs[jobID]]
    /\ UNCHANGED <<clock, jobObj, removing, runs>>
    /\ UNCHANGED nonCron

\* EnableJob: nil for an unknown id; for a known id the flag is set, the job
\* scheduled (once more) or the cron replaced, and saveJobs (line 222) waits
\* for the lock EnableJob holds.
EnableJob(jobID, enabled) ==
    /\ ~mutexStuck
    /\ LET o == jobs[jobID] IN
       IF o = 0
       THEN /\ clast' = [op |-> "EnableJob", id |-> jobID, ret |-> "nil", obj |-> 0]
            /\ UNCHANGED <<jobObj, sched, cronRunning, mutexStuck>>
       ELSE /\ jobObj' = [jobObj EXCEPT ![o].enabled = enabled]
            /\ IF enabled
               THEN /\ sched' = [sched EXCEPT ![o] =
                                   IF Schedules(jobObj'[o]) THEN @ + 1 ELSE @]
                    /\ UNCHANGED cronRunning
               ELSE /\ sched' = Rescheduled(ListJobs(FALSE) \ {o})
                    /\ cronRunning' = FALSE
            /\ \A e \in Objs : sched'[e] <= MaxSched
            /\ mutexStuck' = TRUE
            /\ clast' = [op |-> "EnableJob", id |-> jobID, ret |-> "blocked", obj |-> o]
    /\ UNCHANGED <<clock, jobs, removing, runs>>
    /\ UNCHANGED nonCron

\* RunJob: false for an unknown id or a disabled job without force; else a
\* task runs the callback and, for a DeleteAfterRun job, calls RemoveJob.
RunJob(jobID, force) ==
    /\ ~mutexStuck
    /\ LET o == jobs[jobID]
           ok == o # 0 /\ (jobObj[o].enabled \/ force)
       IN  /\ clast' = [op |-> "RunJob", id |-> jobID,
                        ret |-> IF ok THEN "true" ELSE "false", obj |-> o]
           /\ IF ok /\ jobObj[o].dar
              THEN /\ removing[o] < MaxSched
                   /\ removing' = [removing EXCEPT ![o] = @ + 1]
              ELSE UNCHANGED removing
    /\ UNCHANGED <<clock, jobObj, jobs, sched, cronRunning, mutexStuck, runs>>
    /\ UNCHANGED nonCron

\* Start and Stop of the service: of the current cs.cron.
CronStart ==
    /\ ~cronRunning
    /\ cronRunning' = TRUE
    /\ UNCHANGED <<clock, jobObj, jobs, sched, mutexStuck, removing, runs, clast>>
    /\ UNCHANGED nonCron

CronStop ==
    /\ cronRunning
    /\ cronRunning' = FALSE
    /\ UNCHANGED <<clock, jobObj, jobs, sched, mutexStuck, removing, runs, clast>>
    /\ UNCHANGED nonCron

\* One schedule of object o fires (scheduleJob lines 279-392).  A ticker
\* leaves its loop when the job is disabled, or after a DeleteAfterRun job ran
\* and RemoveJob returned; an entry of the started cron stays where it is; an
\* "at" goroutine ends, and runs a late job only if it is DeleteAfterRun.
Fire(o, late) ==
    /\ sched[o] > 0
    /\ runs[o] < MaxRuns
    /\ LET j == jobObj[o]
           ran == CASE j.kind = "every" -> j.enabled
                    [] j.kind = "cron" -> TRUE
                    [] OTHER -> ~late \/ j.dar
           ends == CASE j.kind = "every" -> ~j.enabled \/ j.dar
                     [] j.kind = "cron" -> FALSE
                     [] OTHER -> TRUE
       IN  /\ j.kind = "cron" => cronRunning
           /\ j.kind # "at" => ~late
           /\ runs' = [runs EXCEPT ![o] = IF ran THEN @ + 1 ELSE @]
           /\ sched' = [sched EXCEPT ![o] = IF ends THEN @ - 1 ELSE @]
           /\ IF ran /\ j.dar
              THEN /\ removing[o] < MaxSched
                   /\ removing' = [removing EXCEPT ![o] = @ + 1]
              ELSE UNCHANGED removing
    /\ UNCHANGED <<clock, jobObj, jobs, cronRunning, mutexStuck, clast>>
    /\ UNCHANGED nonCron

\* A task that ran object o calls RemoveJob(job.ID): false for an id that is
\* gone; else it stays in RemoveJob for ever.
RemoveAfterRun(o) ==
    /\ removing[o] > 0
    /\ ~mutexStuck
    /\ RemoveJobBody(jobObj[o].id)
    /\ removing' = [removing EXCEPT ![o] =
                       IF jobs[jobObj[o].id] = 0 THEN @ - 1 ELSE @]
    /\ UNCHANGED <<clock, jobObj, runs, clast>>
    /\ UNCHANGED nonCron

\* A second passes.
Tick ==
    /\ clock < MaxClock
    /\ clock' = clock + 1
    /\ UNCHANGED <<jobObj, jobs, sched, cronRunning, mutexStuck, removing, runs, clast>>
    /\ UNCHANGED nonCron

NextCron ==
    \/ \E kind \in Kinds, valid \in BOOLEAN, dar \in BOOLEAN, saveOk \in BOOLEAN :
           AddJob(kind, valid, dar, saveOk)
    \/ \E jobID \in JobIds : RemoveJob(jobID)
    \/ \E jobID \in JobIds, enabled \in BOOLEAN : EnableJob(jobID, enabled)
    \/ \E jobID \in JobIds, force \in BOOLEAN : RunJob(jobID, force)
    \/ CronStart
    \/ CronStop
    \/ \E o \in Objs, late \in BOOLEAN : Fire(o, late)
    \/ \E o \in Objs : RemoveAfterRun(o)
    \/ Tick

\* ---------------------------------------------------------------- frames
\* An inbound payload. kind "reply": a JSON object whose "id" is a number, num
\* being the int(idFloat) the readers compute from it (lines 133-137, 189-193);
\* body tells whether it carries result or error. kind "noid": a JSON object
\* without id; "strid": an id that is not a number; "notjson": bytes
\* json.Unmarshal rejects; "toolong": such bytes in a line longer than the
\* scanner's token limit (bufio.MaxScanTokenSize).
NoFrame == [kind |-> "none", num |-> 0, body |-> "none"]
NotJson == [kind |-> "notjson", num |-> 0, body |-> "none"]
NoIdFrame == [kind |-> "noid", num |-> 0, body |-> "result"]
StrIdFrame == [kind |-> "strid", num |-> 0, body |-> "result"]
ReplyFrames == [kind : {"reply"}, num : Ids, body : {"result", "error"}]
TooLong == [kind |-> "toolong", num |-> 0, body |-> "none"]
Frames == ReplyFrames \cup {NotJson, NoIdFrame, StrIdFrame, TooLong}

\* The payload is a reply whose id is id.
BearsId(f, id) == f.kind = "reply" /\ f.num = id

InCall == {"send", "wsend", "senderr", "wait", "evict"}

\* The caller whose responseChan is registered under id.
OwnerOf(id) == CHOOSE c \in Callers : curId[c] = id

\* ------------------------------------------------------------ descriptors
\* MCPServer: Command set or not, URL absent, a ws:// (wss://) URL or another
\* URL, and Timeout (ConnectMCPServers leaves 0 when toolTimeout is present but
\* zero or not a number).
\* Connect: the transport selected from the descriptor ("" when neither field is set).
TransportOf(d) ==
    IF d.Command THEN "stdio"
    ELSE IF d.URL = "ws" THEN "websocket"
    ELSE IF d.URL = "http" THEN "http"
    ELSE ""

\* The descriptors tried: Timeout 0 differs from a positive Timeout only in the
\* http client (line 210), and a URL next to a Command is never looked at.
Descriptors ==
    {d \in [Command : BOOLEAN, URL : {"none", "ws", "http"}, Timeout : {0, DefaultTimeout}] :
        /\ d.Timeout = 0 => TransportOf(d) = "http"
        /\ d.Command => d.URL # "ws"}

InitSession ==
    /\ server \in Descriptors
    /\ transport = ""
    /\ activeRequests = Nil
    /\ reqID = 0
    /\ muHeld = FALSE
    /\ crashed = FALSE
    /\ peerUp = FALSE
    /\ readerAlive = 0
    /\ stdinPipe = 0
    /\ pc = [c \in Callers |-> "idle"]
    /\ curId = [c \in Callers |-> 0]
    /\ slot = [c \in Callers |-> NoFrame]
    /\ resp = [c \in Callers |-> NoFrame]
    /\ outcome = [c \in Callers |-> "none"]
    /\ afterExit = [c \in Callers |-> FALSE]
    /\ issued = <<>>
    /\ sessClosed = FALSE

\* MCPSession.Connect with connectViaStdio / connectViaWebSocket / connectViaHTTP.
\* ok: whether cmd.Start / Dial succeeds. Within SpecSession a session is
\* connected at most once (one ConnectAll).
Connect(ok) ==
    /\ ~crashed /\ ~muHeld
    /\ transport = "" /\ activeRequests = Nil
    /\ transport' = TransportOf(server)
    /\ IF TransportOf(server) = "http" \/ (TransportOf(server) \in {"stdio", "websocket"} /\ ok)
       THEN /\ activeRequests' = {}
            /\ peerUp' = (TransportOf(server) # "http")
            /\ readerAlive' = IF TransportOf(server) = "http" THEN readerAlive ELSE readerAlive + 1
       ELSE UNCHANGED <<activeRequests, peerUp, readerAlive>>
    /\ UNCHANGED <<server, reqID, muHeld, crashed, stdinPipe, pc, curId, slot,
                   resp, outcome, afterExit>>
    /\ UNCHANGED <<mvars, cvars, nonMcp>>

\* Faulty variant of Register: the counter is read and incremented without
\* ms.mu, so an increment can be lost and the id of the last caller handed out
\* again.
Register_StaleId(c) ==
    /\ ~crashed /\ ~muHeld
    /\ pc[c] = "idle"
    /\ reqID < MaxReqID
    /\ \E id \in {reqID, reqID + 1} \ {0} :
        /\ reqID' = id
        /\ issued' = Append(issued, id)
        /\ IF activeRequests = Nil
           THEN /\ pc' = [pc EXCEPT ![c] = "panicked"]
                /\ crashed' = TRUE
                /\ muHeld' = TRUE
                /\ UNCHANGED <<activeRequests, curId, afterExit>>
           ELSE /\ pc' = [pc EXCEPT ![c] = "send"]
                /\ curId' = [curId EXCEPT ![c] = id]
                /\ activeRequests' = activeRequests \cup {id}
                /\ afterExit' = [afterExit EXCEPT ![c] = (transport = "stdio" /\ ~peerUp)]
                /\ UNCHANGED <<crashed, muHeld>>
    /\ UNCHANGED <<server, transport, peerUp, readerAlive, stdinPipe, slot, resp, outcome>>
    /\ UNCHANGED <<mvars, cvars, kvars, sessClosed, extvars>>

\* sendRequest, lines 221-235: under ms.mu allocate the id and register the
\* channel. Assigning into the nil map of a session that never connected panics
\* with ms.mu held.
Register(c) ==
    /\ ~crashed /\ ~muHeld
    /\ pc[c] = "idle"
    /\ reqID < MaxReqID
    /\ reqID' = reqID + 1
    /\ issued' = Append(issued, reqID + 1)
    /\ IF activeRequests = Nil
       THEN /\ pc' = [pc EXCEPT ![c] = "panicked"]
            /\ crashed' = TRUE
            /\ muHeld' = TRUE
            /\ UNCHANGED <<activeRequests, curId, afterExit>>
       ELSE /\ pc' = [pc EXCEPT ![c] = "send"]
            /\ curId' = [curId EXCEPT ![c] = reqID + 1]
            /\ activeRequests' = activeRequests \cup {reqID + 1}
            /\ afterExit' = [afterExit EXCEPT ![c] = (transport = "stdio" /\ ~peerUp)]
            /\ UNCHANGED <<crashed, muHeld>>
    /\ UNCHANGED <<server, transport, peerUp, readerAlive, stdinPipe, slot, resp, outcome>>
    /\ UNCHANGED <<mvars, cvars, kvars, sessClosed, extvars>>

\* Faulty variant of StdioWrite: the write does not notice that the child has exited.
StdioWrite_IgnoresExit(c) ==
    /\ ~crashed
    /\ pc[c] = "send" /\ transport = "stdio"
    /\ stdinPipe < PipeCap
    /\ stdinPipe' = stdinPipe + 1
    /\ pc' = [pc EXCEPT ![c] = "wait"]
    /\ UNCHANGED <<server, transport, activeRequests, reqID, muHeld, crashed, peerUp,
                   readerAlive, curId, slot, resp, outcome, afterExit>>
    /\ UNCHANGED <<mvars, cvars, nonMcp>>

\* sendStdioRequest: ms.writer.Write blocks while the pipe is full and fails
\* (EPIPE) once the child has exited.
StdioWrite(c) ==
    /\ ~crashed
    /\ pc[c] = "send" /\ transport = "stdio"
    /\ IF ~peerUp
       THEN /\ pc' = [pc EXCEPT ![c] = "senderr"]
            /\ UNCHANGED stdinPipe
       ELSE /\ stdinPipe < PipeCap
            /\ stdinPipe' = stdinPipe + 1
            /\ pc' = [pc EXCEPT ![c] = "wait"]
    /\ UNCHANGED <<server, transport, activeRequests, reqID, muHeld, crashed, peerUp,
                   readerAlive, curId, slot, resp, outcome, afterExit>>
    /\ UNCHANGED <<mvars, cvars, nonMcp>>

\* sendRequest line 243, sendWebSocketRequest line 288: the caller, outside
\* ms.mu, enters wsConn.WriteJSON.
WsWriteBegin(c) ==
    /\ ~crashed
    /\ pc[c] = "send" /\ transport = "websocket"
    /\ pc' = [pc EXCEPT ![c] = "wsend"]
    /\ UNCHANGED <<server, transport, activeRequests, reqID, muHeld, crashed, peerUp,
                   readerAlive, stdinPipe, curId, slot, resp, outcome, afterExit>>
    /\ UNCHANGED <<mvars, cvars, nonMcp>>

\* sendWebSocketRequest: wsConn.WriteJSON returns; it fails once the connection
\* is closed. A websocket.Conn supports one writer at a time: with another
\* caller inside WriteJSON the write may also panic ("concurrent write to
\* websocket connection").
WsWrite(c) ==
    /\ ~crashed
    /\ pc[c] = "wsend" /\ transport = "websocket"
    /\ \/ /\ pc' = [pc EXCEPT ![c] = IF peerUp THEN "wait" ELSE "senderr"]
          /\ UNCHANGED crashed
       \/ /\ \E d \in Callers \ {c} : pc[d] = "wsend"
          /\ pc' = [pc EXCEPT ![c] = "panicked"]
          /\ crashed' = TRUE
    /\ UNCHANGED <<server, transport, activeRequests, reqID, muHeld, peerUp,
                   readerAlive, stdinPipe, curId, slot, resp, outcome, afterExit>>
    /\ UNCHANGED <<mvars, cvars, nonMcp>>

\* sendHTTPRequest, lines 308-327: the peer answers with a JSON object f, which
\* goes into responseChan whatever id it carries; the pending entry stays.
HttpReply(c, f) ==
    /\ ~crashed
    /\ pc[c] = "send" /\ transport = "http"
    /\ f.kind \in {"reply", "noid", "strid"}
    /\ slot' = [slot EXCEPT ![c] = f]
    /\ pc' = [pc EXCEPT ![c] = "wait"]
    /\ UNCHANGED <<server, transport, activeRequests, reqID, muHeld, crashed, peerUp,
                   readerAlive, stdinPipe, curId, resp, outcome, afterExit>>
    /\ UNCHANGED <<mvars, cvars, nonMcp>>

\* sendHTTPRequest: the round trip fails (connection error, or a body that is
\* not a JSON object).
HttpError(c) ==
    /\ ~crashed
    /\ pc[c] = "send" /\ transport = "http"
    /\ pc' = [pc EXCEPT ![c] = "senderr"]
    /\ UNCHANGED <<server, transport, activeRequests, reqID, muHeld, crashed, peerUp,
                   readerAlive, stdinPipe, curId, slot, resp, outcome, afterExit>>
    /\ UNCHANGED <<mvars, cvars, nonMcp>>

\* connectViaHTTP, line 210: http.Client.Timeout ends the round trip, but a
\* Timeout of 0 means no timeout.
HttpClientTimeout(c) ==
    /\ ~crashed
    /\ pc[c] = "send" /\ transport = "http"
    /\ server.Timeout > 0
    /\ pc' = [pc EXCEPT ![c] = "senderr"]
    /\ UNCHANGED <<server, transport, activeRequests, reqID, muHeld, crashed, peerUp,
                   readerAlive, stdinPipe, curId, slot, resp, outcome, afterExit>>
    /\ UNCHANGED <<mvars, cvars, nonMcp>>

\* sendRequest, lines 250-255: after a failed send, remove the entry under ms.mu
\* and return the send error.
SendErrCleanup(c) ==
    /\ ~crashed /\ ~muHeld
    /\ pc[c] = "senderr"
    /\ activeRequests' = activeRequests \ {curId[c]}
    /\ outcome' = [outcome EXCEPT ![c] = "senderr"]
    /\ pc' = [pc EXCEPT ![c] = "done"]
    /\ UNCHANGED <<server, transport, reqID, muHeld, crashed, peerUp, readerAlive,
                   stdinPipe, curId, slot, resp, afterExit>>
    /\ UNCHANGED <<mvars, cvars, nonMcp>>

\* ListTools / CallTool / Initialize on the bytes sendRequest returned:
\* json.Unmarshal, then the check of result.Error.
DecodeOutcome(f) ==
    IF f.kind = "notjson" THEN "decodeerr"
    ELSE IF f.body = "error" THEN "apperr"
    ELSE "ok"

\* sendRequest, lines 261-263: the select takes the response out of responseChan
\* and returns it to the typed operation, which decodes it.
SelectResponse(c) ==
    /\ ~crashed
    /\ pc[c] = "wait"
    /\ slot[c] # NoFrame
    /\ resp' = [resp EXCEPT ![c] = slot[c]]
    /\ slot' = [slot EXCEPT ![c] = NoFrame]
    /\ outcome' = [outcome EXCEPT ![c] = DecodeOutcome(slot[c])]
    /\ pc' = [pc EXCEPT ![c] = "done"]
    /\ UNCHANGED <<server, transport, activeRequests, reqID, muHeld, crashed, peerUp,
                   readerAlive, stdinPipe, curId, afterExit>>
    /\ UNCHANGED <<mvars, cvars, nonMcp>>

\* sendRequest, line 264: the select takes ctx.Done(). Go chooses among the
\* ready cases at random, so this is possible with a response in the channel.
SelectTimeout(c) ==
    /\ ~crashed
    /\ pc[c] = "wait"
    /\ pc' = [pc EXCEPT ![c] = "evict"]
    /\ UNCHANGED <<server, transport, activeRequests, reqID, muHeld, crashed, peerUp,
                   readerAlive, stdinPipe, curId, slot, resp, outcome, afterExit>>
    /\ UNCHANGED <<mvars, cvars, nonMcp>>

\* Faulty variant of Evict: the timeout path forgets to delete the pending entry.
Evict_KeepsEntry(c) ==
    /\ ~crashed /\ ~muHeld
    /\ pc[c] = "evict"
    /\ outcome' = [outcome EXCEPT ![c] = "timeout"]
    /\ pc' = [pc EXCEPT ![c] = "done"]
    /\ UNCHANGED <<server, transport, activeRequests, reqID, muHeld, crashed, peerUp,
                   readerAlive, stdinPipe, curId, slot, resp, afterExit>>
    /\ UNCHANGED <<mvars, cvars, nonMcp>>

\* sendRequest, lines 265-268: under ms.mu delete the entry, return the timeout error.
Evict(c) ==
    /\ ~crashed /\ ~muHeld
    /\ pc[c] = "evict"
    /\ activeRequests' = activeRequests \ {curId[c]}
    /\ outcome' = [outcome EXCEPT ![c] = "timeout"]
    /\ pc' = [pc EXCEPT ![c] = "done"]
    /\ UNCHANGED <<server, transport, reqID, muHeld, crashed, peerUp, readerAlive,
                   stdinPipe, curId, slot, resp, afterExit>>
    /\ UNCHANGED <<mvars, cvars, nonMcp>>

\* The typed operation has returned to its caller, which may call again.
Return(c) ==
    /\ ~crashed
    /\ pc[c] = "done"
    /\ pc' = [pc EXCEPT ![c] = "idle"]
    /\ curId' = [curId EXCEPT ![c] = 0]
    /\ slot' = [slot EXCEPT ![c] = NoFrame]
    /\ resp' = [resp EXCEPT ![c] = NoFrame]
    /\ outcome' = [outcome EXCEPT ![c] = "none"]
    /\ afterExit' = [afterExit EXCEPT ![c] = FALSE]
    /\ UNCHANGED <<server, transport, activeRequests, reqID, muHeld, crashed, peerUp,
                   readerAlive, stdinPipe>>
    /\ UNCHANGED <<mvars, cvars, nonMcp>>

\* readStdioResponses line 124: line := scanner.Bytes() is a view of the
\* scanner's buffer, which a later Scan may overwrite. The callers in K have such
\* a view in their channel, not received yet, and see it become g.
Clobbered(K, g) ==
    [c \in Callers |-> IF c \in K THEN g ELSE slot[c]]

\* The callers whose channel holds a view of the scanner's buffer.
Holders == {c \in Callers : slot[c] # NoFrame /\ pc[c] \in {"send", "wait"}}

\* Faulty variant of Dispatch: the pending entry is not deleted on delivery.
Dispatch_KeepsEntry(f, K, g) ==
    /\ ~crashed
    /\ readerAlive > 0
    /\ transport \in {"stdio", "websocket"}
    /\ K \subseteq Holders
    /\ transport = "websocket" => K = {}
    /\ f = TooLong => g = NotJson
    /\ LET id == f.num
           deliver == f.kind = "reply" /\ id \in activeRequests
       IN  IF f = TooLong /\ transport = "stdio"
           THEN \* scanner.Scan returns false (ErrTooLong): the loop of line 122 ends
                /\ readerAlive' = readerAlive - 1
                /\ slot' = Clobbered(K, g)
                /\ UNCHANGED <<muHeld, activeRequests>>
           ELSE IF deliver
           THEN /\ ~muHeld
                /\ IF slot[OwnerOf(id)] # NoFrame
                   THEN \* ch <- line blocks on the full channel, with ms.mu held
                        /\ muHeld' = TRUE
                        /\ readerAlive' = readerAlive - 1
                        /\ UNCHANGED <<slot, activeRequests>>
                   ELSE /\ slot' = [Clobbered(K, g) EXCEPT ![OwnerOf(id)] = f]
                        /\ activeRequests' = activeRequests
                        /\ UNCHANGED <<muHeld, readerAlive>>
           ELSE /\ slot' = Clobbered(K, g)
                /\ UNCHANGED <<muHeld, readerAlive, activeRequests>>
    /\ UNCHANGED <<server, transport, reqID, crashed, peerUp, stdinPipe, pc, curId,
                   resp, outcome, afterExit>>
    /\ UNCHANGED <<mvars, cvars, nonMcp>>

\* readStdioResponses / readWebSocketResponses: one iteration of the reader loop
\* on the inbound payload f.
Dispatch(f, K, g) ==
    /\ ~crashed
    /\ readerAlive > 0
    /\ transport \in {"stdio", "websocket"}
    /\ K \subseteq Holders
    /\ transport = "websocket" => K = {}
    /\ f = TooLong => g = NotJson
    /\ LET id == f.num
           deliver == f.kind = "reply" /\ id \in activeRequests
       IN  IF f = TooLong /\ transport = "stdio"
           THEN \* scanner.Scan returns false (ErrTooLong): the loop of line 122 ends
                /\ readerAlive' = readerAlive - 1
                /\ slot' = Clobbered(K, g)
                /\ UNCHANGED <<muHeld, activeRequests>>
           ELSE IF deliver
           THEN /\ ~muHeld
                /\ IF slot[OwnerOf(id)] # NoFrame
                   THEN \* ch <- line blocks on the full channel, with ms.mu held
                        /\ muHeld' = TRUE
                        /\ readerAlive' = readerAlive - 1
                        /\ UNCHANGED <<slot, activeRequests>>
                   ELSE /\ slot' = [Clobbered(K, g) EXCEPT ![OwnerOf(id)] = f]
                        /\ activeRequests' = activeRequests \ {id}
                        /\ UNCHANGED <<muHeld, readerAlive>>
           ELSE /\ slot' = Clobbered(K, g)
                /\ UNCHANGED <<muHeld, readerAlive, activeRequests>>
    /\ UNCHANGED <<server, transport, reqID, crashed, peerUp, stdinPipe, pc, curId,
                   resp, outcome, afterExit>>
    /\ UNCHANGED <<mvars, cvars, nonMcp>>

\* The reader loop ends: scanner.Scan returns false / ReadMessage fails.
ReaderExit ==
    /\ ~crashed
    /\ readerAlive > 0 /\ ~peerUp
    /\ readerAlive' = readerAlive - 1
    /\ UNCHANGED <<server, transport, activeRequests, reqID, muHeld, crashed, peerUp,
                   stdinPipe, pc, curId, slot, resp, outcome, afterExit>>
    /\ UNCHANGED <<mvars, cvars, nonMcp>>

\* The peer: the child process exits, or the socket is closed by the far end.
PeerExit ==
    /\ ~crashed
    /\ peerUp
    /\ peerUp' = FALSE
    /\ stdinPipe' = 0
    /\ UNCHANGED <<server, transport, activeRequests, reqID, muHeld, crashed, readerAlive,
                   pc, curId, slot, resp, outcome, afterExit>>
    /\ UNCHANGED <<mvars, cvars, nonMcp>>

\* The peer: the child reads one request from its standard input.
PeerReadStdin ==
    /\ ~crashed
    /\ peerUp /\ stdinPipe > 0
    /\ stdinPipe' = stdinPipe - 1
    /\ UNCHANGED <<server, transport, activeRequests, reqID, muHeld, crashed, peerUp,
                   readerAlive, pc, curId, slot, resp, outcome, afterExit>>
    /\ UNCHANGED <<mvars, cvars, nonMcp>>

\* A Process or Socket session.
Streaming == transport \in {"stdio", "websocket"}

\* Faulty variant of Close: it also throws the pending entries away.
Close_DropsPending ==
    /\ ~crashed /\ ~muHeld
    /\ peerUp' = FALSE
    /\ stdinPipe' = 0
    /\ sessClosed' = (sessClosed \/ (Streaming /\ activeRequests # Nil))
    /\ activeRequests' = IF activeRequests = Nil THEN Nil ELSE {}
    /\ UNCHANGED <<server, transport, reqID, muHeld, crashed, readerAlive,
                   pc, curId, slot, resp, outcome, afterExit>>
    /\ UNCHANGED <<mvars, cvars, kvars, issued, extvars>>

\* MCPSession.Close: under ms.mu, kill the process / close the socket.
Close ==
    /\ ~crashed /\ ~muHeld
    /\ peerUp' = FALSE
    /\ stdinPipe' = 0
    \* lines 445-452: only a started process or a dialled socket is closed
    /\ sessClosed' = (sessClosed \/ (Streaming /\ activeRequests # Nil))
    /\ UNCHANGED <<server, transport, activeRequests, reqID, muHeld, crashed, readerAlive,
                   pc, curId, slot, resp, outcome, afterExit>>
    /\ UNCHANGED <<mvars, cvars, kvars, issued, extvars>>

\* ---------------------------------------------------------------- strings
\* A Go string is the sequence of its bytes.
McpPrefix == <<"m", "c", "p", "_">>
Underscore == <<"_">>

hasPrefix(s, prefix) ==
    Len(s) >= Len(prefix) /\ SubSeq(s, 1, Len(prefix)) = prefix

\* indexOf: the 0-based position of the first occurrence of substr in s, or -1.
indexOf(s, substr) ==
    LET hits == {i \in 0..(Len(s) - Len(substr)) :
                    \A j \in 0..(Len(substr) - 1) : s[i + j + 1] = substr[j + 1]}
    IN  IF hits = {} THEN -1 ELSE CHOOSE i \in hits : \A k \in hits : i <= k

\* s[start:], start counted from 0.
From(s, start) == SubSeq(s, start + 1, Len(s))

\* The loop of splitN: cuts still allowed, from byte start on.
RECURSIVE splitLoop(_, _, _, _)
splitLoop(s, sep, start, cuts) ==
    IF cuts = 0 \/ indexOf(From(s, start), sep) = -1
    THEN <<From(s, start)>>
    ELSE LET pos == indexOf(From(s, start), sep) + start
         IN  <<SubSeq(s, start + 1, pos)>> \o splitLoop(s, sep, pos + Len(sep), cuts - 1)

splitN(s, sep, n) ==
    IF n = 0 THEN <<>>
    ELSE IF n = 1 THEN <<s>>
    ELSE splitLoop(s, sep, 0, n - 1)

\* GetTools line 535: fmt.Sprintf("mcp_%s_%s", name, tool.Name)
ExposedName(name, tool) == McpPrefix \o name \o Underscore \o tool

\* CallTool lines 550-563: the (serverName, actualToolName) recovered from the
\* full name, or ok = FALSE for "invalid MCP tool name format".
ParseToolName(fullToolName) ==
    IF Len(fullToolName) < 5 \/ ~hasPrefix(fullToolName, McpPrefix)
    THEN [ok |-> FALSE, server |-> <<>>, tool |-> <<>>]
    ELSE LET parts == splitN(From(fullToolName, 4), Underscore, 2)
         IN  IF Len(parts) < 2
             THEN [ok |-> FALSE, server |-> <<>>, tool |-> <<>>]
             ELSE [ok |-> TRUE, server |-> parts[1], tool |-> parts[2]]

\* ---------------------------------------------------------------- manager
\* The manager's operations are issued one after another by its owner
\* (ConnectMCPServers, then the agent); the peers act at any time.
\* The server names and tool names tried.
ServerNames == {<<"a">>, <<"a", "_", "b">>}
ToolNames == {<<"c">>, <<"b", "_", "c">>}

\* The full names passed to CallTool: every exposed name, a name without the
\* prefix, the bare prefix, a name without separator, an unknown server.
CallNames ==
    {ExposedName(n, t) : n \in ServerNames, t \in ToolNames}
        \cup {<<"c">>, McpPrefix, McpPrefix \o <<"a">>, McpPrefix \o <<"z", "_", "c">>}

\* The descriptors tried for the manager: one per transport Connect can select.
\* ParseToolName on each of the names tried.
Parsed == [f \in CallNames |-> ParseToolName(f)]

\* Bound on the child processes left running under one name.
MaxOrphans == 1
\* Bound on the reader tasks of one session.
MaxReaders == 2

MgrDescriptors == {d \in Descriptors : d.Timeout = DefaultTimeout /\ (d.Command => d.URL = "none")}

NoDescriptor == [Command |-> FALSE, URL |-> "none", Timeout |-> 0]

\* A session record: desc is MCPSession.Server, mapMade tells that activeRequests
\* is not nil, peerUp that the child is alive / the socket open; tried, inited
\* and closed remember that Connect was called, that Initialize returned
\* success and that Close was called; orphans counts the child processes
\* started under the name that still run and that no ms.stdinCmd of a session
\* in the map refers to any more; readers counts the reader tasks
\* (readStdioResponses / readWebSocketResponses) the session has started and
\* that have not returned.
\* No entry under the name.
Absent ==
    [present |-> FALSE, desc |-> NoDescriptor, transport |-> "", mapMade |-> FALSE,
     peerUp |-> FALSE, inited |-> FALSE, closed |-> FALSE, tried |-> FALSE,
     orphans |-> 0, readers |-> 0]

\* AddServer line 487: &MCPSession{Server: &server}
NewSession(d) ==
    [present |-> TRUE, desc |-> d, transport |-> "", mapMade |-> FALSE,
     peerUp |-> FALSE, inited |-> FALSE, closed |-> FALSE, tried |-> FALSE,
     orphans |-> 0, readers |-> 0]

\* The session completed Connect and Initialize and was not closed since.
Ready(s) == s.present /\ s.mapMade /\ s.inited /\ ~s.closed

\* How a typed operation (Initialize, ListTools, CallTool) on session s can end:
\* sendRequest panics on the nil map of a session that did not connect, the
\* write fails on a dead process or closed socket, and otherwise the peer
\* decides (reply, error reply, undecodable reply, silence).
CallOutcomes(s) ==
    IF ~s.mapMade THEN {"panic"}
    ELSE IF s.transport \in {"stdio", "websocket"} /\ ~s.peerUp THEN {"senderr"}
    ELSE {"ok", "apperr", "decodeerr", "timeout", "senderr"}

NoResult ==
    [op |-> "none", tools |-> {}, full |-> <<>>, err |-> "none", server |-> <<>>,
     tool |-> <<>>, delegated |-> FALSE]

InitManager ==
    /\ servers = [n \in ServerNames |-> Absent]
    /\ caTodo = {}
    /\ caCur = <<>>
    /\ caRunning = FALSE
    /\ caErr = FALSE
    /\ mcrashed = FALSE
    /\ last = NoResult

\* The child process of session s is running.
ChildRuns(s) == s.present /\ s.transport = "stdio" /\ s.mapMade /\ s.peerUp

\* The children of s that run once s has let go of its current one.
Orphaned(s) == s.orphans + IF ChildRuns(s) THEN 1 ELSE 0

\* MCPServerManager.AddServer (mm.mu.Lock: not while ConnectAll holds RLock).
\* A session already under the name is replaced in the map, not closed.
AddServer(n, d) ==
    /\ ~mcrashed /\ ~caRunning
    /\ Orphaned(servers[n]) <= MaxOrphans
    /\ servers' = [servers EXCEPT ![n] =
                      [NewSession(d) EXCEPT !.orphans = Orphaned(servers[n])]]
    /\ last' = NoResult
    /\ UNCHANGED <<caTodo, caCur, caRunning, caErr, mcrashed>>
    /\ UNCHANGED <<svars, cvars, nonMcp>>

\* ConnectAll lines 497-501: take the read lock and start ranging over the map.
ConnectAllBegin ==
    /\ ~mcrashed /\ ~caRunning
    /\ caRunning' = TRUE
    /\ caTodo' = {n \in ServerNames : servers[n].present}
    /\ caCur' = <<>>
    /\ caErr' = FALSE
    /\ last' = NoResult
    /\ UNCHANGED <<servers, mcrashed>>
    /\ UNCHANGED <<svars, cvars, nonMcp>>

\* MCPSession.Connect as ConnectAll line 502 calls it on the next session of the
\* range; ok: whether cmd.Start / Dial succeeds. On error: log, continue.
\* Connect does not look at what the session went through before: on success
\* it has a new process / socket / client and a new pending map, not yet
\* initialized and not closed.
ConnectOne(n, ok) ==
    /\ ~mcrashed /\ caRunning /\ caCur = <<>>
    /\ n \in caTodo
    /\ LET s == servers[n]
           t == TransportOf(s.desc)
           up == t = "http" \/ (t \in {"stdio", "websocket"} /\ ok)
       IN  /\ up => Orphaned(s) <= MaxOrphans
           /\ (up /\ t # "http") => s.readers < MaxReaders
           /\ servers' = [servers EXCEPT ![n] =
                   IF up
                   THEN \* line 108: ms.stdinCmd = cmd; the process it referred to runs on
                        [s EXCEPT !.transport = t, !.mapMade = TRUE, !.peerUp = (t # "http"),
                                  !.tried = TRUE, !.inited = FALSE, !.closed = FALSE,
                                  !.orphans = Orphaned(s),
                                  \* lines 114, 167: go ms.read...Responses
                                  !.readers = IF t = "http" THEN @ ELSE @ + 1]
                   ELSE [s EXCEPT !.transport = t, !.tried = TRUE]]
           /\ caCur' = IF up THEN n ELSE <<>>
           /\ caTodo' = IF up THEN caTodo ELSE caTodo \ {n}
           /\ caErr' = (caErr \/ ~up)
    /\ UNCHANGED <<caRunning, mcrashed, last>>
    /\ UNCHANGED <<svars, cvars, nonMcp>>

\* MCPSession.Close on a session record.
ClosedSession(s) == [s EXCEPT !.closed = TRUE, !.peerUp = FALSE]

\* ConnectAll lines 509-514: Initialize returns on the session just connected;
\* on error the session is closed and the loop continues.
InitializeOne(n, out) ==
    /\ ~mcrashed /\ caRunning /\ caCur = n /\ n \in caTodo
    /\ out \in CallOutcomes(servers[n])
    /\ servers' = [servers EXCEPT ![n] =
           IF out = "ok" THEN [@ EXCEPT !.inited = TRUE] ELSE ClosedSession(@)]
    /\ caErr' = (caErr \/ out # "ok")
    /\ caCur' = <<>>
    /\ caTodo' = caTodo \ {n}
    /\ UNCHANGED <<caRunning, mcrashed, last>>
    /\ UNCHANGED <<svars, cvars, nonMcp>>

\* ConnectAll line 516: the range is over, return lastErr.
ConnectAllEnd ==
    /\ ~mcrashed /\ caRunning /\ caTodo = {} /\ caCur = <<>>
    /\ caRunning' = FALSE
    /\ last' = [NoResult EXCEPT !.op = "ConnectAll", !.err = IF caErr THEN "error" ELSE "none"]
    /\ UNCHANGED <<servers, caTodo, caCur, caErr, mcrashed>>
    /\ UNCHANGED <<svars, cvars, nonMcp>>

\* MCPServerManager.GetTools: ListTools on every session of the map; lt gives
\* how each ListTools ends and the tools a successful one lists.
GetTools(lt) ==
    /\ ~mcrashed /\ ~caRunning
    /\ \A n \in ServerNames :
           /\ lt[n].out \in CallOutcomes(servers[n])
           /\ lt[n].out # "ok" => lt[n].tools = {}
    /\ IF \E n \in ServerNames : servers[n].present /\ lt[n].out = "panic"
       THEN /\ mcrashed' = TRUE
            /\ last' = [NoResult EXCEPT !.op = "GetTools", !.err = "panic"]
       ELSE /\ last' = [NoResult EXCEPT
                    !.op = "GetTools",
                    !.tools = {[name |-> ExposedName(x[1], x[2]), server |-> x[1], tool |-> x[2]] :
                                  x \in {y \in ServerNames \X ToolNames :
                                            servers[y[1]].present /\ y[2] \in lt[y[1]].tools}}]
            /\ UNCHANGED mcrashed
    /\ UNCHANGED <<servers, caTodo, caCur, caRunning, caErr>>
    /\ UNCHANGED <<svars, cvars, nonMcp>>

\* MCPServerManager.CallTool; out: how the session's CallTool ends when the
\* call is delegated.
ManagerCallTool(fullToolName, out) ==
    /\ ~mcrashed /\ ~caRunning
    /\ LET p == Parsed[fullToolName]
           exists == p.ok /\ p.server \in ServerNames /\ servers[p.server].present
       IN  IF ~p.ok
           THEN /\ out = "none"
                /\ last' = [NoResult EXCEPT !.op = "CallTool", !.full = fullToolName,
                                             !.err = "invalid"]
                /\ UNCHANGED mcrashed
           ELSE IF ~exists
           THEN /\ out = "none"
                /\ last' = [NoResult EXCEPT !.op = "CallTool", !.full = fullToolName,
                                             !.err = "notfound"]
                /\ UNCHANGED mcrashed
           ELSE /\ out \in CallOutcomes(servers[p.server])
                /\ last' = [NoResult EXCEPT !.op = "CallTool", !.full = fullToolName,
                                             !.err = out, !.server = p.server,
                                             !.tool = p.tool, !.delegated = TRUE]
                /\ mcrashed' = (out = "panic")
    /\ UNCHANGED <<servers, caTodo, caCur, caRunning, caErr>>
    /\ UNCHANGED <<svars, cvars, nonMcp>>

\* MCPServerManager.CloseAll (mm.mu.Lock): Close on every session of the map.
CloseAll ==
    /\ ~mcrashed /\ ~caRunning
    /\ servers' = [n \in ServerNames |->
           IF servers[n].present THEN ClosedSession(servers[n]) ELSE servers[n]]
    /\ last' = NoResult
    /\ UNCHANGED <<caTodo, caCur, caRunning, caErr, mcrashed>>
    /\ UNCHANGED <<svars, cvars, nonMcp>>

\* A child process that no session refers to any more exits by itself.
OrphanExit(n) ==
    /\ ~mcrashed
    /\ servers[n].orphans > 0
    /\ servers' = [servers EXCEPT ![n].orphans = @ - 1]
    /\ UNCHANGED <<caTodo, caCur, caRunning, caErr, mcrashed, last>>
    /\ UNCHANGED <<svars, cvars, nonMcp>>

\* A reader task of session n returns: its stream has ended (lines 122, 176-179).
\* The stream of the transport the session now uses ends when peerUp is
\* false; one it used before may end at any time.
ReaderGone(n) ==
    /\ ~mcrashed
    /\ servers[n].readers > (IF servers[n].peerUp THEN 1 ELSE 0)
    /\ servers' = [servers EXCEPT ![n].readers = @ - 1]
    /\ UNCHANGED <<caTodo, caCur, caRunning, caErr, mcrashed, last>>
    /\ UNCHANGED <<svars, cvars, nonMcp>>

\* The peer of session n goes away: the child exits / the socket is closed.
PeerDown(n) ==
    /\ ~mcrashed
    /\ servers[n].present /\ servers[n].peerUp
    /\ servers' = [servers EXCEPT ![n].peerUp = FALSE]
    /\ UNCHANGED <<caTodo, caCur, caRunning, caErr, mcrashed, last>>
    /\ UNCHANGED <<svars, cvars, nonMcp>>

ListResults ==
    [out : {"ok"}, tools : SUBSET ToolNames]
        \cup [out : {"panic", "senderr", "apperr", "decodeerr", "timeout"}, tools : {{}}]

Outcomes == {"none", "ok", "panic", "senderr", "apperr", "decodeerr", "timeout"}

NextManager ==
    \/ \E n \in ServerNames, d \in MgrDescriptors : AddServer(n, d)
    \/ ConnectAllBegin
    \/ \E n \in ServerNames, ok \in BOOLEAN : ConnectOne(n, ok)
    \/ \E n \in ServerNames, out \in Outcomes : InitializeOne(n, out)
    \/ ConnectAllEnd
    \/ \E lt \in [ServerNames -> ListResults] : GetTools(lt)
    \/ \E f \in CallNames, out \in Outcomes : ManagerCallTool(f, out)
    \/ CloseAll
    \/ \E n \in ServerNames : PeerDown(n)
    \/ \E n \in ServerNames : OrphanExit(n)
    \/ \E n \in ServerNames : ReaderGone(n)

\* ---------------------------------------------------------------- consumer
\* ConnectMCPServers (package tools): one entry of the mcpServers configuration.
\* isMap: the entry is a JSON object; command, url: the field is a string;
\* toolTimeout: the field is absent, or present and zero or not a number.
Configs ==
    {cfg \in [isMap : BOOLEAN, command : BOOLEAN, url : {"none", "ws", "http"},
              toolTimeout : {"absent", "zero"}] :
        ~cfg.isMap => (~cfg.command /\ cfg.url = "none" /\ cfg.toolTimeout = "absent")}

\* ConnectMCPServers line 112: an object with neither command nor url is skipped.
Skipped(cfg) == cfg.isMap /\ ~cfg.command /\ cfg.url = "none"

\* ConnectMCPServers lines 68-123: the MCPServer built from an entry. The url
\* is read only when there is no command; an entry that is not an object gives
\* a descriptor with the name alone.
ConfigDescriptor(cfg) ==
    IF ~cfg.isMap THEN NoDescriptor
    ELSE [Command |-> cfg.command,
          URL |-> IF cfg.command THEN "none" ELSE cfg.url,
          Timeout |-> IF cfg.toolTimeout = "absent" THEN DefaultTimeout ELSE 0]

\* ConnectMCPServers lines 67-129: the next entry of the configuration (the keys
\* of a map are distinct) is parsed and added to the manager.
CmsAddServer(n, cfg) ==
    /\ cms = "config"
    /\ ~servers[n].present
    /\ ~Skipped(cfg)
    /\ AddServer(n, ConfigDescriptor(cfg))

\* ConnectMCPServers line 129: the configuration is exhausted.
CmsConfigDone ==
    /\ cms = "config"
    /\ cms' = "connect"
    /\ UNCHANGED <<registry, closing>>
    /\ UNCHANGED <<svars, mvars, nonMcp>>

\* ConnectMCPServers line 133: manager.ConnectAll is called.
CmsConnectAll ==
    /\ cms = "connect" /\ last.op = "none"
    /\ ConnectAllBegin

\* ConnectMCPServers lines 133-135: ConnectAll returned; on an error
\* ConnectMCPServers returns it.
CmsAfterConnectAll ==
    /\ cms = "connect" /\ last.op = "ConnectAll"
    /\ cms' = IF last.err = "none" THEN "tools" ELSE "failed"
    /\ UNCHANGED <<registry, closing>>
    /\ UNCHANGED <<svars, mvars, nonMcp>>

\* ConnectMCPServers line 138: manager.GetTools is called.
CmsGetTools(lt) ==
    /\ cms = "tools" /\ last.op = "ConnectAll"
    /\ GetTools(lt)

\* getToolsForServer: the exposed names that start with "mcp_" + serverName + "_".
getToolsForServer(allTools, serverName) ==
    {name \in allTools : hasPrefix(name, McpPrefix \o serverName \o Underscore)}

\* ConnectMCPServers lines 150-154: the original tool name cut out of an exposed name.
OrigToolName(name, serverName) ==
    IF Len(name) > Len(serverName) + 5
    THEN From(name, Len(McpPrefix \o serverName \o Underscore))
    ELSE name

\* ConnectMCPServers lines 145-158: the wrappers built for the sessions of
\* GetSessions from the names GetTools returned.
Wrappers(allTools) ==
    {[server |-> n, orig |-> OrigToolName(name, n),
      name |-> ExposedName(n, OrigToolName(name, n))] :
        <<n, name>> \in {y \in ServerNames \X allTools :
                            /\ servers[y[1]].present
                            /\ y[2] \in getToolsForServer(allTools, y[1])}}

\* ConnectMCPServers lines 139-161: GetTools returned (it never returns an
\* error); every wrapper is registered.
CmsRegister ==
    /\ cms = "tools" /\ last.op = "GetTools" /\ ~mcrashed
    /\ registry' = Wrappers({x.name : x \in last.tools})
    /\ cms' = "done"
    /\ UNCHANGED closing
    /\ UNCHANGED <<svars, mvars, nonMcp>>

NextConsumer ==
    \/ \E n \in ServerNames, cfg \in Configs : CmsAddServer(n, cfg)
    \/ CmsConfigDone
    \/ CmsConnectAll
    \/ \E n \in ServerNames, ok \in BOOLEAN : ConnectOne(n, ok)
    \/ \E n \in ServerNames, out \in Outcomes : InitializeOne(n, out)
    \/ ConnectAllEnd
    \/ CmsAfterConnectAll
    \/ \E lt \in [ServerNames -> ListResults] : CmsGetTools(lt)
    \/ CmsRegister
    \/ \E n \in ServerNames : PeerDown(n)
    \/ \E n \in ServerNames : ReaderGone(n)

\* ConnectMCPServers on a new manager.
InitSpecConsumer ==
    /\ InitSession
    /\ server = [Command |-> TRUE, URL |-> "none", Timeout |-> DefaultTimeout]
    /\ InitManager
    /\ cms = "config"
    /\ registry = {}
    /\ closing = "no"
    /\ InitCron
    /\ InitHeartbeat /\ hbEnabled = TRUE
    /\ InitSubagent
    /\ InitAgent /\ memoryWindow = MaxHistory

SpecConsumer == InitSpecConsumer /\ [][NextConsumer]_vars

\* A typed call on session s returns without the peer's help: the deadline of
\* sendRequest ends the wait on a Process or Socket session, and on an HTTP
\* session the client's Timeout (connectViaHTTP line 210) ends the round trip,
\* unless it is 0, which means no timeout.
ReturnsByItself(s) == ~(s.transport = "http" /\ s.desc.Timeout = 0)

\* What the scheduler, the dialer's handshake timeout and the deadlines
\* guarantee of ConnectAll: Connect returns, Initialize returns when
\* ReturnsByItself, and the loop goes on.
FairConnectAll ==
    /\ WF_vars(\E n \in ServerNames, ok \in BOOLEAN : ConnectOne(n, ok))
    /\ WF_vars(\E n \in ServerNames, out \in Outcomes :
                   ReturnsByItself(servers[n]) /\ InitializeOne(n, out))
    /\ WF_vars(ConnectAllEnd)

FairConsumer == SpecConsumer /\ FairConnectAll

CallerStep(c) ==
    \/ Register(c)
    \/ StdioWrite(c)
    \/ WsWriteBegin(c)
    \/ WsWrite(c)
    \/ HttpClientTimeout(c)
    \/ SendErrCleanup(c)
    \/ SelectResponse(c)
    \/ SelectTimeout(c)
    \/ Evict(c)
    \/ Return(c)

NextSession ==
    \/ \E ok \in BOOLEAN : Connect(ok)
    \/ \E c \in Callers : CallerStep(c)
    \/ \E c \in Callers, f \in Frames : HttpReply(c, f)
    \/ \E c \in Callers : HttpError(c)
    \/ \E f \in Frames, K \in SUBSET Callers : \E g \in {f, NotJson} : Dispatch(f, K, g)
    \/ ReaderExit
    \/ PeerExit
    \/ PeerReadStdin
    \/ Close

\* One session and its callers; the manager is left out.
\* ConnectMCPServers is not running and CloseAll was not called.
InitConsumer ==
    /\ cms = "off"
    /\ registry = {}
    /\ closing = "no"

InitSpecSession ==
    /\ InitSession /\ InitManager /\ InitConsumer /\ InitCron
    /\ InitHeartbeat /\ hbEnabled = TRUE
    /\ InitSubagent
    /\ InitAgent /\ memoryWindow = MaxHistory

SpecSession == InitSpecSession /\ [][NextSession]_vars

\* What the Go scheduler, the timers and the http client guarantee: a caller that
\* can take its next step takes it; the select always ends (the deadline fires).
\* Nothing is assumed of the peer.
FairCaller(c) ==
    /\ WF_vars(StdioWrite(c))
    /\ WF_vars(WsWriteBegin(c))
    /\ WF_vars(WsWrite(c))
    /\ WF_vars(HttpClientTimeout(c))
    /\ WF_vars(SendErrCleanup(c))
    /\ WF_vars(SelectResponse(c) \/ SelectTimeout(c))
    /\ WF_vars(Evict(c))
    /\ WF_vars(Return(c))

\* The manager, with the session variables of SpecSession left at rest.
InitSpecManager ==
    /\ InitSession
    /\ server = [Command |-> TRUE, URL |-> "none", Timeout |-> DefaultTimeout]
    /\ InitManager
    /\ InitConsumer
    /\ InitCron
    /\ InitHeartbeat /\ hbEnabled = TRUE
    /\ InitSubagent
    /\ InitAgent /\ memoryWindow = MaxHistory

SpecManager == InitSpecManager /\ [][NextManager]_vars

FairSession == SpecSession /\ \A c \in Callers : FairCaller(c)

\* The cron service alone: no MCP server is configured.
InitSpecCron ==
    /\ InitSession
    /\ server = [Command |-> TRUE, URL |-> "none", Timeout |-> DefaultTimeout]
    /\ InitManager
    /\ InitConsumer
    /\ InitCron
    /\ InitHeartbeat /\ hbEnabled = TRUE
    /\ InitSubagent
    /\ InitAgent /\ memoryWindow = MaxHistory

SpecCron == InitSpecCron /\ [][NextCron]_vars

\* The heartbeat service alone.
InitSpecHeartbeat ==
    /\ InitSession
    /\ server = [Command |-> TRUE, URL |-> "none", Timeout |-> DefaultTimeout]
    /\ InitManager
    /\ InitConsumer
    /\ InitCron
    /\ InitHeartbeat
    /\ InitSubagent
    /\ InitAgent /\ memoryWindow = MaxHistory

SpecHeartbeat == InitSpecHeartbeat /\ [][NextHeartbeat]_vars

\* The subagent manager alone; in the fair form every task goroutine and
\* every waitForDependencies loop keeps being scheduled.
InitSpecSubagent ==
    /\ InitSession
    /\ server = [Command |-> TRUE, URL |-> "none", Timeout |-> DefaultTimeout]
    /\ InitManager
    /\ InitConsumer
    /\ InitCron
    /\ InitHeartbeat /\ hbEnabled = TRUE
    /\ InitSubagent
    /\ InitAgent /\ memoryWindow = MaxHistory

\* The agent loop's direct processing alone.
InitSpecAgent ==
    /\ InitSession
    /\ server = [Command |-> TRUE, URL |-> "none", Timeout |-> DefaultTimeout]
    /\ InitManager
    /\ InitConsumer
    /\ InitCron
    /\ InitHeartbeat /\ hbEnabled = TRUE
    /\ InitSubagent
    /\ InitAgent

SpecAgent == InitSpecAgent /\ [][NextAgent]_vars

SpecSubagent == InitSpecSubagent /\ [][NextSubagent]_vars

FairSubagent ==
    /\ SpecSubagent
    /\ \A o \in TaskObjs :
        /\ WF_vars(waitForDependencies(o))
        /\ WF_vars(\E ok \in BOOLEAN : SubagentDone(o, ok))
        /\ WF_vars(SubagentExit(o))


\* ---------------------------------------------------------------- shutdown
\* CloseAll against calls routed through MCPServerManager.CallTool on one
\* session: such a call holds mm.mu.RLock from before sendRequest until it has
\* returned, so the callers not at "idle" are the holders of the read lock.
\* MCPServerManager.CallTool line 545: mm.mu.RLock, then the session's call. A
\* writer waiting for mm.mu blocks new readers.
RoutedCall(c) ==
    /\ closing # "waiting"
    /\ Register(c)

\* CloseAll is called: it waits at mm.mu.Lock (line 597).
CloseAllCall ==
    /\ ~crashed
    /\ closing = "no"
    /\ closing' = "waiting"
    /\ UNCHANGED <<cms, registry>>
    /\ UNCHANGED <<svars, mvars, nonMcp>>

\* CloseAll lines 597-603: no read lock is held any more; the session is
\* closed (MCPSession.Close) and CloseAll returns.
CloseAllRun ==
    /\ ~crashed /\ ~muHeld
    /\ closing = "waiting"
    /\ \A c \in Callers : pc[c] = "idle"
    /\ peerUp' = FALSE
    /\ stdinPipe' = 0
    /\ closing' = "done"
    /\ UNCHANGED <<server, transport, activeRequests, reqID, muHeld, crashed, readerAlive,
                   pc, curId, slot, resp, outcome, afterExit>>
    /\ sessClosed' = (sessClosed \/ (Streaming /\ activeRequests # Nil))
    /\ UNCHANGED <<cms, registry>>
    /\ UNCHANGED <<mvars, kvars, issued, extvars>>

RoutedStep(c) ==
    \/ RoutedCall(c)
    \/ StdioWrite(c)
    \/ WsWriteBegin(c)
    \/ WsWrite(c)
    \/ HttpClientTimeout(c)
    \/ SendErrCleanup(c)
    \/ SelectResponse(c)
    \/ SelectTimeout(c)
    \/ Evict(c)
    \/ Return(c)

NextShutdown ==
    \/ \E ok \in BOOLEAN : Connect(ok)
    \/ \E c \in Callers : RoutedStep(c)
    \/ \E c \in Callers, f \in Frames : HttpReply(c, f)
    \/ \E c \in Callers : HttpError(c)
    \/ \E f \in Frames, K \in SUBSET Callers : \E g \in {f, NotJson} : Dispatch(f, K, g)
    \/ ReaderExit
    \/ PeerExit
    \/ PeerReadStdin
    \/ CloseAllCall
    \/ CloseAllRun

SpecShutdown == InitSpecSession /\ [][NextShutdown]_vars

\* The callers take their steps (FairCaller) and CloseAll runs once it can
\* have the lock.
FairShutdown ==
    /\ SpecShutdown
    /\ \A c \in Callers : FairCaller(c)
    /\ WF_vars(CloseAllRun)

\* ------------------------------------------------------------------ claims
Returned(c) == pc[c] = "done"

\* C1: on a Process or Socket session every caller that returns a response
\* received the payload whose id is the id allocated to it.
C1_OwnPayload ==
    \A c \in Callers :
        (Streaming /\ Returned(c) /\ resp[c] # NoFrame) => BearsId(resp[c], curId[c])

\* C2: a caller that fails with TimeoutError had no response delivered into its
\* slot by dispatch (delivery and timeout eviction never both resolve one id).
C2_DeliveredXorTimeout ==
    \A c \in Callers :
        (Streaming /\ Returned(c) /\ outcome[c] = "timeout") => slot[c] = NoFrame

\* C3 as stated: a call for which no payload bearing its id arrived fails with
\* TimeoutError, and on return its id is not pending.
NothingArrived(c) == slot[c] = NoFrame /\ resp[c] = NoFrame

C4_EveryCallReturns ==
    \A c \in Callers : (pc[c] = "send") ~> Returned(c)

\* C5: a call issued on a Process session after its child exited returns, and
\* never with success.
C5_CallAfterExitFails ==
    \A c \in Callers :
        /\ [](afterExit[c] /\ Returned(c) => outcome[c] # "ok")
        /\ (afterExit[c] ~> Returned(c))

C5_Witness ==
    \E c \in Callers : afterExit[c] /\ Returned(c) /\ outcome[c] = "senderr"

\* ConnectAll has returned and every session of the map was visited by it.
AfterConnectAll ==
    /\ ~caRunning
    /\ \A n \in ServerNames : servers[n].present => servers[n].tried

\* Every descriptor in the map names a command or a URL.
DescriptorsValid ==
    \A n \in ServerNames : servers[n].present => TransportOf(servers[n].desc) # ""

\* C6: after ConnectAll, GetTools does not crash and returns tools of ready
\* sessions only, whichever servers failed to dial or spawn.
C6_GetToolsFromReadyOnly ==
    (AfterConnectAll /\ DescriptorsValid /\ last.op = "GetTools") =>
        /\ last.err # "panic"
        /\ \A x \in last.tools : Ready(servers[x.server])

\* C7: every session in the manager's mapping has completed Connect and
\* Initialize; one whose Connect or Initialize failed is not in the mapping
\* (stated for the states in which ConnectAll has visited every session).
C7_MappingHoldsOnlyReady ==
    AfterConnectAll =>
        \A n \in ServerNames :
            servers[n].present => (servers[n].mapMade /\ servers[n].inited)

\* C8: the name GetTools exposes for tool t of ready server n, passed to
\* CallTool, is delegated to session n with tool name t.
C8_NameRoundTrip ==
    \A n \in ServerNames, t \in ToolNames :
        (last.op = "CallTool" /\ last.full = ExposedName(n, t) /\ Ready(servers[n])) =>
            (last.delegated /\ last.server = n /\ last.tool = t)

\* C9: GetTools gives two distinct (server, tool) pairs distinct exposed names.
C9_NoNameCollision ==
    last.op = "GetTools" =>
        \A x, y \in last.tools : x.name = y.name => x = y

\* The name is malformed or the server it names has no ready session.
NoReadySessionFor(f) ==
    \/ ~Parsed[f].ok
    \/ Parsed[f].server \notin ServerNames
    \/ ~Ready(servers[Parsed[f].server])

\* C10: CallTool on a malformed name, or on a name whose server has no ready
\* session (its connect or initialize failed, or it was closed), fails with
\* NotFoundError and calls no session.
C10_NotFoundWithoutSending ==
    \A f \in CallNames :
        (AfterConnectAll /\ last.op = "CallTool" /\ last.full = f /\ NoReadySessionFor(f)) =>
            (last.err \in {"invalid", "notfound"} /\ ~last.delegated)

\* C11: a connect or initialize failure of some servers is not fatal to
\* ConnectMCPServers: when a server became ready it does not return the error,
\* and when it is done the tools of the ready servers are registered.
C11_PartialFailureNotFatal ==
    /\ (\E n \in ServerNames : Ready(servers[n])) => cms # "failed"
    /\ cms = "done" =>
           \A x \in last.tools :
               Ready(servers[x.server]) =>
                   \E w \in registry : w.server = x.server /\ w.orig = x.tool

\* C12: ConnectAll attempts Connect for every session of the map whichever of
\* them fail, and it terminates.
C12_ConnectAllVisitsAll ==
    /\ [](last.op = "ConnectAll" =>
              \A n \in ServerNames : servers[n].present => servers[n].tried)
    /\ (caRunning ~> ~caRunning)

\* The session's Connect or Initialize failed, or the session was closed.
Terminal(s) == s.present /\ s.tried /\ (~s.mapMade \/ s.closed)

\* C13: Closed is terminal: a session whose Connect or Initialize failed or that
\* was closed stays so under every manager operation (a session AddServer puts
\* under the same name is another session: it was not tried).
C13_ClosedIsTerminal ==
    [][\A n \in ServerNames :
           (Terminal(servers[n]) /\ servers'[n].present /\ servers'[n].tried)
               => Terminal(servers'[n])]_vars

\* The outcomes of a typed call whose request was written to the transport.
SentOutcomes == {"ok", "apperr", "timeout"}

\* C14: no tools/list or tools/call request is sent on a session on which
\* initialize has not returned success: a session GetTools obtained tools from,
\* and a session a delegated CallTool sent its request to, is initialized.
C14_InitializeFirst ==
    /\ \A x \in last.tools : servers[x.server].inited
    /\ (last.op = "CallTool" /\ last.delegated /\ last.err \in SentOutcomes)
           => servers[last.server].inited

\* C15: when the reply matched to a call carries a JSON-RPC error object, the
\* call fails with the application error, not with success, a send error or
\* TimeoutError.
C15_ErrorReplyIsApplicationError ==
    \A c \in Callers :
        (Returned(c) /\ (resp[c].body = "error" \/ slot[c].body = "error"))
            => outcome[c] = "apperr"

\* The inbound payloads that are not valid JSON or lack a usable id.
Malformed == {NotJson, NoIdFrame, StrIdFrame, TooLong}

\* C16: a payload that is not valid JSON or lacks required fields is discarded:
\* the step of the reader that handles it resolves no caller (no pending entry
\* is removed and no empty slot is filled) and the reader keeps running.
C16_MalformedIsSkipped ==
    [][\A f \in Malformed, K \in SUBSET Callers, g \in Frames :
           Dispatch(f, K, g) =>
               /\ activeRequests' = activeRequests
               /\ \A c \in Callers : slot[c] = NoFrame => slot'[c] = NoFrame
               /\ readerAlive' = readerAlive]_vars

\* C17: the mapping gains entries only while the manager is being populated
\* (AddServer hands ConnectAll its descriptors), loses entries only through
\* CloseAll, and is empty after CloseAll.
C17_CloseAllEmptiesMapping ==
    [][/\ CloseAll => \A n \in ServerNames : ~servers'[n].present
       /\ \A n \in ServerNames :
              (servers[n].present /\ ~servers'[n].present) => CloseAll
       /\ \A n \in ServerNames :
              (~servers[n].present /\ servers'[n].present) =>
                  \E d \in MgrDescriptors : AddServer(n, d)]_vars

\* C18: CloseAll always terminates, also when calls routed through the manager
\* are in flight (unless the program has crashed meanwhile).
C18_CloseAllTerminates ==
    (closing = "waiting") ~> (closing = "done" \/ crashed)

\* The descriptor sets both command and url, or neither.
BothOrNeither(d) == d.Command = (d.URL # "none")

\* C19: a descriptor with both or neither of command and url is rejected before
\* any transport is selected: no process is spawned, nothing is dialed.
C19_BothOrNeitherRejected ==
    BothOrNeither(server) =>
        (transport = "" /\ ~peerUp /\ readerAlive = 0 /\ activeRequests = Nil)

\* C20: ConnectAll connects the servers in parallel: while one server's
\* Initialize is in progress, the Connect of a server not yet visited can start.
C20_ConnectAllInParallel ==
    \A n \in ServerNames, m \in ServerNames :
        (caRunning /\ caCur = n /\ m \in caTodo /\ m # n) => ENABLED ConnectOne(m, TRUE)

\* C21: RemoveJob of an existing job returns true and the job is no longer
\* listed by ListJobs(true); RemoveJob of an unknown id returns false and
\* leaves the job set as it was.
C21_RemoveJobContract ==
    [][\A jobID \in JobIds :
           RemoveJob(jobID) =>
               IF jobs[jobID] # 0
               THEN /\ clast'.ret = "true"
                    /\ \A i \in JobIds : jobs'[i] # jobs[jobID]
               ELSE /\ clast'.ret = "false"
                    /\ jobs' = jobs]_vars

\* C22: AddJob with a schedule of kind "cron" whose expression is not a valid
\* cron expression returns an error.
C22_InvalidExprIsError ==
    (/\ clast.op = "AddJob"
     /\ jobObj[clast.obj].kind = "cron"
     /\ ~jobObj[clast.obj].valid) => clast.ret = "error"

\* C23: on one session the ids are strictly increasing in allocation order
\* (hence pairwise distinct and never handed out again, whatever became of the
\* call), and the id counter and the pending mapping change only in a step
\* that takes the session lock, so never while another task holds it.
C23_IdsIncreaseUnderLock ==
    /\ [](\A i \in 1..Len(issued), j \in 1..Len(issued) :
              i < j => issued[i] < issued[j])
    /\ [][(activeRequests' # activeRequests \/ reqID' # reqID) => ~muHeld]_vars

\* Two calls are in flight at once with the two ids allocated so far.
C23_Witness ==
    /\ Len(issued) = 2
    /\ activeRequests = {1, 2}
    /\ \A c \in Callers : pc[c] # "idle" /\ curId[c] \in {1, 2}
    /\ \E c \in Callers : curId[c] = 1

\* C24: an inbound payload that carries no id, or whose id has no pending
\* entry, is dropped: the step of the reader that handles it leaves the pending
\* mapping and every caller's slot as they were, so it resolves no caller.
C24_UnmatchedIsDropped ==
    [][\A f \in Frames, K \in SUBSET Callers, g \in Frames :
           (Dispatch(f, K, g) /\ ~(f.kind = "reply" /\ f.num \in activeRequests)) =>
               /\ activeRequests' = activeRequests
               /\ slot' = slot]_vars

\* C25: when a call has returned, the pending mapping holds no entry for its
\* id; hence the mapping of a session on which no call is in flight is empty.
C25_ReturnedLeavesNoEntry ==
    /\ \A c \in Callers :
           (Returned(c) /\ activeRequests # Nil) => curId[c] \notin activeRequests
    /\ ((\A c \in Callers : pc[c] \in {"idle", "done"}) /\ activeRequests # Nil)
           => activeRequests = {}

\* C26: Close leaves the pending mapping, the id counter, every caller's
\* position, slot and outcome as they were; a caller that waits on a closed
\* session stops waiting only by taking a delivered response out of its slot
\* or by its own deadline.
C26_CloseLeavesPending ==
    /\ [][Close => /\ activeRequests' = activeRequests
                   /\ reqID' = reqID
                   /\ pc' = pc
                   /\ slot' = slot
                   /\ outcome' = outcome]_vars
    /\ [][\A c \in Callers :
              (sessClosed /\ pc[c] = "wait" /\ pc'[c] # "wait") =>
                  (SelectResponse(c) \/ SelectTimeout(c))]_vars

\* A caller is still waiting, its entry pending, on a session Close has closed.
C26_Witness ==
    /\ sessClosed
    /\ \E c \in Callers :
           pc[c] = "wait" /\ curId[c] \in activeRequests /\ slot[c] = NoFrame

\* C27: when CloseAll returns, no child process started by any session of the
\* manager is still running, whatever AddServer and ConnectAll calls came
\* before.
C27_CloseAllKillsChildren ==
    [][CloseAll => \A n \in ServerNames :
                       ~ChildRuns(servers'[n]) /\ servers'[n].orphans = 0]_vars

\* C28: a connected Process or Socket session has exactly one dispatch task:
\* one while its transport is open, never two.
C28_OneDispatchTask ==
    \A n \in ServerNames :
        LET s == servers[n] IN
        (s.present /\ s.mapMade /\ s.transport \in {"stdio", "websocket"}) =>
            /\ s.readers <= 1
            /\ s.peerUp => s.readers = 1

\* C29: the scheduler runs a DeleteAfterRun job at most once, and once it has
\* run the job, the task that removes it is never left waiting for ever inside
\* RemoveJob.
C29_DeleteAfterRunOnce ==
    \A o \in Objs :
        (jobObj[o].used /\ jobObj[o].dar) =>
            /\ runs[o] <= 1
            /\ ~(runs[o] > 0 /\ removing[o] > 0 /\ mutexStuck)

\* C30: a payload delivered into a caller's slot is stable: as long as it lies
\* there, no later step of the reader changes the bytes the caller will decode.
C30_DeliveredPayloadStable ==
    [][\A c \in Callers :
           (slot[c] # NoFrame /\ slot'[c] # NoFrame) => slot'[c] = slot[c]]_vars

\* C31: at no time are two callers inside the transport send of the session.
\* (The write to the child's stdin is one Write call on one file, which the
\* runtime serialises; it is one step here.)
C31_SendsExclusive ==
    Cardinality({c \in Callers : pc[c] = "wsend"}) <= 1

\* C32: the reader never blocks while holding the session lock: the lock is
\* never left held by a task that waits (it stays held only when sendRequest
\* panicked under it, which ends the program), and a delivery always finds
\* the slot of the pending call empty.
C32_DispatchNeverBlocks ==
    /\ muHeld => crashed
    /\ \A id \in Ids :
           (activeRequests # Nil /\ id \in activeRequests /\ Streaming) =>
               \A c \in Callers : curId[c] = id => slot[c] = NoFrame

\* The reader has delivered a payload into a slot and released the lock, while
\* another call is pending.
C32_Witness ==
    /\ ~muHeld /\ Streaming /\ readerAlive > 0
    /\ \E c \in Callers :
           /\ slot[c] # NoFrame /\ pc[c] = "wait" /\ curId[c] \notin activeRequests
           /\ \E d \in Callers \ {c} : curId[d] \in activeRequests

\* C33: every wrapper ConnectMCPServers registered is bound to a (server, tool)
\* pair that GetTools listed, and no two registered wrappers share a name.
C33_WrapperBoundToLister ==
    (cms = "done" /\ last.op = "GetTools") =>
        /\ \A w \in registry :
               \E x \in last.tools : x.server = w.server /\ x.tool = w.orig
        /\ \A w1, w2 \in registry : w1.name = w2.name => w1 = w2

C35_OneScheduleEach ==
    \A o \in ListJobs(FALSE) :
        (/\ jobObj[o].kind \in {"every", "cron"}
         /\ Schedules(jobObj[o])
         /\ ~jobObj[o].dar) => sched[o] = 1

\* C36: AddJob never replaces an existing job: an entry of the job set is
\* never overwritten by another job (it can only be removed).
C36_AddJobNeverReplaces ==
    [][\A i \in JobIds : jobs[i] # 0 => jobs'[i] \in {jobs[i], 0}]_vars

\* C37: while the service is running (Start returned nil, no Stop since)
\* exactly one heartbeat loop is alive, also after a Start that follows a
\* Stop; there are never two loops.
C37_OneLoopWhileRunning ==
    /\ hbLoops <= 1
    /\ (hbRunning /\ ~hbMu) => hbLoops = 1

\* C38 (second half): a subagent waiting for its dependencies eventually
\* starts once every dependency has completed successfully (there is a task
\* made under the dependency's id, and every such task has Status completed),
\* unless a dependency stops being completed (it is cancelled, or its id is
\* given to a new task).
C38_EventuallyStarts ==
    LET CompletedOk(d) ==
            /\ \E p \in TaskObjs : saTasks[p].id = d
            /\ \A p \in TaskObjs : saTasks[p].id = d => saTasks[p].status = "completed"
    IN  \A o \in TaskObjs :
            (saTasks[o].pc = "waiting" /\ \A d \in saTasks[o].deps : CompletedOk(d))
                ~> \/ saTasks[o].pc \in {"run", "announce", "done"}
                   \/ \E d \in saTasks[o].deps : ~CompletedOk(d)

\* C39: after a successful ProcessDirect(m, s) the history of s ends with
\* the user message m followed by the assistant reply, and the request sent
\* to the LLM is earlier turns of s (the history before the call, or a tail
\* of it) followed by the new user message, once.
C39_ExchangeRecorded ==
    (pdLast.op = "ProcessDirect" /\ pdLast.ok) =>
        LET msgs == smSessions[pdLast.sessionID].Messages
            user == [role |-> "user", content |-> pdLast.message]
            n == Len(msgs)
        IN  /\ smSessions[pdLast.sessionID].exists
            /\ n >= 2
            /\ msgs[n - 1] = user
            /\ msgs[n] = [role |-> "assistant", content |-> pdLast.reply]
            /\ \E k \in 1..(Len(pdBefore) + 1) :
                   pdReq = Append(SubSeq(pdBefore, k, Len(pdBefore)), user)

====
